---- MODULE Spec2Model ----
(***************************************************************************)
(* Model of nasa_nebula_fetcher.py: the interactive nebula lookup.         *)
(*                                                                         *)
(* Strings the program inspects character by character (names, menu input, *)
(* the selection line, column names, titles, dates) are sequences of one-  *)
(* character strings; "sup2" stands for the single character U+00B2        *)
(* (superscript two), a digit for str.isdigit() that int() rejects.        *)
(* Strings that are only printed (RA, DEC, URLs, descriptions) are plain   *)
(* strings.  Python's None and optional values are tagged records.         *)
(***************************************************************************)
EXTENDS Integers, Sequences, FiniteSets, TLC

VARIABLES
    pc,               \* position of main(): menu, manual, lookup, search, select, download, done, crashed
    depth,            \* nesting of escolher_nebulosa() calls (re-prompts so far)
    escolha,          \* last text typed at the menu prompt
    query,            \* the nebula name returned by escolher_nebulosa()
    simbad,           \* what Simbad.query_object did (the lookup's input)
    nqueries,         \* number of Simbad.query_object calls made
    dados,            \* result of buscar_dados_simbad
    http,             \* what the image search request did (the search's input)
    maxres,           \* max_results passed to search_nasa_images
    images,           \* result of search_nasa_images
    selections,       \* the selection line typed by the user
    numeros,          \* numeros_escolhidos
    pos,              \* number of entries of numeros_escolhidos already handled
    processed,        \* 0-based indices handed to download_and_show_image, in order
    avisos,           \* numbers printed by the invalid-index warning, in order
    imagens_baixadas, \* the list main() hands to salvar_info_em_txt
    saved,            \* image files img.save() actually wrote, in order
    vizier,           \* what the VizieR query did (the composition lookup's input)
    report,           \* the text file written by salvar_info_em_txt
    stages            \* pipeline stages executed so far, in order

vars == <<pc, depth, escolha, query, simbad, nqueries, dados, http, maxres, images,
          selections, numeros, pos, processed, avisos, imagens_baixadas, saved,
          vizier, report, stages>>

----------------------------------------------------------------------------
(* Bounds of the model *)

\* largest parsec distance a simulated SIMBAD table carries
MaxPc == 2
\* largest number of re-prompts of the menu
MaxDepth == 2
\* largest number of tokens on the selection line
MaxTokens == 2
\* largest number of items in a simulated search response
MaxItems == 2
\* largest max_results tried on search_nasa_images
MaxM == 2
\* largest number of tables in a simulated VizieR response
MaxTables == 2

----------------------------------------------------------------------------
(* Python values *)

None == [t |-> "None"]
PyInt(n) == [t |-> "int", v |-> n]
Masked == [t |-> "masked"]
\* a string that is only printed
Str(s) == [t |-> "str", v |-> s]
\* a string kept as its characters
Chars(s) == [t |-> "chars", s |-> s]

SeqsUpTo(S, n) == UNION {[1..k -> S] : k \in 0..n}

Min(a, b) == IF a <= b THEN a ELSE b

----------------------------------------------------------------------------
(* str methods used by the program *)

DecimalDigits == {"0", "1", "2", "3", "4", "5", "6", "7", "8", "9"}

\* characters c with c.isdigit() true: the decimal digits and digit-like
\* characters such as U+00B2
DigitChars == DecimalDigits \cup {"sup2"}

Whitespace == {" "}

DigitVal(c) ==
    CASE c = "0" -> 0 [] c = "1" -> 1 [] c = "2" -> 2 [] c = "3" -> 3
      [] c = "4" -> 4 [] c = "5" -> 5 [] c = "6" -> 6 [] c = "7" -> 7
      [] c = "8" -> 8 [] c = "9" -> 9

\* s.isdigit(): non-empty and every character is a digit character
isdigit(s) == Len(s) > 0 /\ \A i \in 1..Len(s) : s[i] \in DigitChars

RECURSIVE DecimalValue(_)
DecimalValue(s) ==
    IF Len(s) = 0 THEN 0
    ELSE 10 * DecimalValue(SubSeq(s, 1, Len(s) - 1)) + DigitVal(s[Len(s)])

ValueError == [t |-> "ValueError"]

\* int(s) for s with s.isdigit(): the value, or ValueError when a character
\* is not a decimal digit
int(s) ==
    IF \A i \in 1..Len(s) : s[i] \in DecimalDigits
    THEN PyInt(DecimalValue(s))
    ELSE ValueError

\* s.split(): the maximal runs of non-whitespace characters, in order
RECURSIVE SplitFrom(_, _, _)
SplitFrom(s, i, cur) ==
    IF i > Len(s) THEN (IF cur = <<>> THEN <<>> ELSE <<cur>>)
    ELSE IF s[i] \in Whitespace
         THEN (IF cur = <<>> THEN <<>> ELSE <<cur>>) \o SplitFrom(s, i + 1, <<>>)
         ELSE SplitFrom(s, i + 1, Append(cur, s[i]))

split(s) == SplitFrom(s, 1, <<>>)

\* s.strip()
RECURSIVE lstrip(_)
lstrip(s) == IF Len(s) > 0 /\ s[1] \in Whitespace THEN lstrip(Tail(s)) ELSE s

RECURSIVE rstrip(_)
rstrip(s) ==
    IF Len(s) > 0 /\ s[Len(s)] \in Whitespace
    THEN rstrip(SubSeq(s, 1, Len(s) - 1))
    ELSE s

strip(s) == rstrip(lstrip(s))

\* c in s for a one-character c
HasChar(s, c) == \E i \in 1..Len(s) : s[i] = c

\* sub in s
Contains(s, sub) ==
    \E i \in 0..(Len(s) - Len(sub)) : SubSeq(s, i + 1, i + Len(sub)) = sub

\* s.split(c)[0]: the part before the first occurrence of c
RECURSIVE BeforeFirst(_, _)
BeforeFirst(s, c) ==
    IF Len(s) = 0 \/ s[1] = c THEN <<>>
    ELSE <<s[1]>> \o BeforeFirst(Tail(s), c)

\* s.replace(a, b) for one-character a and b
Replace(s, a, b) == [i \in 1..Len(s) |-> IF s[i] = a THEN b ELSE s[i]]

UnsafeChars == {"\\", "/", "*", "?", ":", "\"", "<", ">", "|"}

limpar_nome_arquivo(texto) ==
    LET t == Replace(texto, " ", "_")
    IN  [i \in 1..Len(t) |-> IF t[i] \in UnsafeChars THEN "_" ELSE t[i]]

----------------------------------------------------------------------------
(* Static tables *)

CATALOGO_NEBULOSAS ==
    [n \in 1..10 |->
        CASE n = 1 -> <<"H", "e", "l", "i", "x", " ", "N", "e", "b", "u", "l", "a">>
          [] n = 2 -> <<"C", "a", "t", "'", "s", " ", "E", "y", "e", " ", "N", "e", "b", "u", "l", "a">>
          [] n = 3 -> <<"R", "i", "n", "g", " ", "N", "e", "b", "u", "l", "a">>
          [] n = 4 -> <<"D", "u", "m", "b", "b", "e", "l", "l", " ", "N", "e", "b", "u", "l", "a">>
          [] n = 5 -> <<"E", "s", "k", "i", "m", "o", " ", "N", "e", "b", "u", "l", "a">>
          [] n = 6 -> <<"S", "a", "t", "u", "r", "n", " ", "N", "e", "b", "u", "l", "a">>
          [] n = 7 -> <<"N", "G", "C", " ", "7", "0", "2", "7">>
          [] n = 8 -> <<"N", "G", "C", " ", "6", "5", "4", "3">>
          [] n = 9 -> <<"I", "C", " ", "4", "1", "8">>
          [] n = 10 -> <<"N", "G", "C", " ", "3", "2", "4", "2">>]

MAPEADOS ==
    { <<"C", "a", "t", "'", "s", " ", "E", "y", "e", " ", "N", "e", "b", "u", "l", "a">>,
      <<"R", "i", "n", "g", " ", "N", "e", "b", "u", "l", "a">>,
      <<"E", "s", "k", "i", "m", "o", " ", "N", "e", "b", "u", "l", "a">>,
      <<"H", "e", "l", "i", "x", " ", "N", "e", "b", "u", "l", "a">>,
      <<"D", "u", "m", "b", "b", "e", "l", "l", " ", "N", "e", "b", "u", "l", "a">>,
      <<"S", "a", "t", "u", "r", "n", " ", "N", "e", "b", "u", "l", "a">> }

MAPEAMENTO_SIMBAD ==
    [k \in MAPEADOS |->
        CASE k = <<"C", "a", "t", "'", "s", " ", "E", "y", "e", " ", "N", "e", "b", "u", "l", "a">> -> <<"N", "G", "C", " ", "6", "5", "4", "3">>
          [] k = <<"R", "i", "n", "g", " ", "N", "e", "b", "u", "l", "a">> -> <<"N", "G", "C", " ", "6", "7", "2", "0">>
          [] k = <<"E", "s", "k", "i", "m", "o", " ", "N", "e", "b", "u", "l", "a">> -> <<"N", "G", "C", " ", "2", "3", "9", "2">>
          [] k = <<"H", "e", "l", "i", "x", " ", "N", "e", "b", "u", "l", "a">> -> <<"N", "G", "C", " ", "7", "2", "9", "3">>
          [] k = <<"D", "u", "m", "b", "b", "e", "l", "l", " ", "N", "e", "b", "u", "l", "a">> -> <<"N", "G", "C", " ", "6", "8", "5", "3">>
          [] k = <<"S", "a", "t", "u", "r", "n", " ", "N", "e", "b", "u", "l", "a">> -> <<"N", "G", "C", " ", "7", "0", "0", "9">>]

\* MAPEAMENTO_SIMBAD.get(nome, nome)
Resolve(nome) == IF nome \in MAPEADOS THEN MAPEAMENTO_SIMBAD[nome] ELSE nome

\* A float distance in light-years: whole light-years plus millionths
Ly(whole, micro) == [t |-> "float", whole |-> whole, micro |-> micro]

\* the conversion constant 3.26156: its integer part and its fraction in millionths
LY_PER_PC_WHOLE == 3
LY_PER_PC_MICRO == 261560

\* float(dist_pc) * 3.26156
ParaAnosLuz(p) ==
    Ly(LY_PER_PC_WHOLE * p + (p * LY_PER_PC_MICRO) \div 1000000,
       (p * LY_PER_PC_MICRO) % 1000000)

Registro(ra, dec, dist_pc, dist_ly) ==
    [t |-> "dict", ra |-> ra, dec |-> dec, dist_pc |-> dist_pc, dist_ly |-> dist_ly]

FIXOS_KEYS == { <<"N", "G", "C", " ", "6", "5", "4", "3">>, <<"N", "G", "C", " ", "6", "7", "2", "0">>, <<"N", "G", "C", " ", "2", "3", "9", "2">> }

DADOS_FIXOS ==
    [k \in FIXOS_KEYS |->
        CASE k = <<"N", "G", "C", " ", "6", "5", "4", "3">> ->
                Registro("17 58 33.4", "+66 37 59", PyInt(1001), Ly(3266, 500000))
          [] k = <<"N", "G", "C", " ", "6", "7", "2", "0">> ->
                Registro("18 53 35.1", "+33 01 45", PyInt(720), Ly(2350, 300000))
          [] k = <<"N", "G", "C", " ", "2", "3", "9", "2">> ->
                Registro("07 29 10.8", "+20 54 42", PyInt(870), Ly(2837, 600000))]

COMPOSICAO_GENERICA ==
    << <<"Hidrogênio (Hα)", "656.3 nm", "vermelho">>,
       <<"Oxigênio duplamente ionizado [O III]", "495.9 nm e 500.7 nm", "verde-brilhante">>,
       <<"Hélio II", "468.6 nm", "azulado">>,
       <<"Nitrogênio ionizado [N II]", "658.4 nm", "vermelho-alaranjado">> >>

----------------------------------------------------------------------------
(* buscar_dados_simbad *)

\* Python truthiness of a value: None, 0 and a masked cell are falsy
Truthy(x) ==
    CASE x.t = "None" -> FALSE
      [] x.t = "masked" -> FALSE
      [] x.t = "int" -> x.v # 0
      [] x.t = "float" -> x.whole # 0 \/ x.micro # 0
      [] OTHER -> TRUE

\* What Simbad.query_object can do: raise, return None (object unknown), or
\* return a table with some columns, some rows and a distance cell
SimbadRaise == [t |-> "raise"]
SimbadNone == [t |-> "None"]
SimbadTable(cols, rows, cell) ==
    [t |-> "table", cols |-> cols, rows |-> rows, dist |-> cell]

DistCells == {Masked} \cup {PyInt(n) : n \in 0..MaxPc}

SimbadOutcomes ==
    {SimbadRaise, SimbadNone}
    \cup {SimbadTable(cols, rows, cell) :
            cols \in SUBSET {"RA", "DEC", "Distance_distance"},
            rows \in 0..1,
            cell \in DistCells}

\* mutant: the test forgets the DEC column
UsableResult_SoRA(result) ==
    /\ result.t = "table"
    /\ result.rows > 0
    /\ "RA" \in result.cols

\* `if result and "RA" in result.colnames and "DEC" in result.colnames`
UsableResult(result) ==
    /\ result.t = "table"
    /\ result.rows > 0
    /\ "RA" \in result.cols
    /\ "DEC" \in result.cols

\* the static fallback
Fallback(nome_query) ==
    IF nome_query \in FIXOS_KEYS THEN DADOS_FIXOS[nome_query] ELSE None

\* the record built from the first row of the table
RemoteRecord(result) ==
    LET dist_pc == IF "Distance_distance" \in result.cols THEN result.dist ELSE None
        dist_ly == IF Truthy(dist_pc) THEN ParaAnosLuz(dist_pc.v) ELSE None
    IN  Registro("RA[0]", "DEC[0]", dist_pc, dist_ly)

\* mutant: the fallback table is read with the name as typed, unresolved
buscar_dados_simbad_SemMapa(nome_objeto, result) ==
    IF UsableResult(result)
    THEN RemoteRecord(result)
    ELSE Fallback(nome_objeto)

buscar_dados_simbad(nome_objeto, result) ==
    LET nome_query == Resolve(nome_objeto)
    IN  IF UsableResult(result)
        THEN RemoteRecord(result)
        ELSE Fallback(nome_query)

----------------------------------------------------------------------------
(* search_nasa_images *)

\* What requests.get can do: raise, or answer with a status and a JSON body
HttpRaise == [t |-> "raise"]
HttpResponse(status, body) == [t |-> "response", status |-> status, body |-> body]

\* JSON objects are records holding the keys that are present
Body(items) == [collection |-> [version |-> "1.0", items |-> items]]
BodyNoItems == [collection |-> [version |-> "1.0"]]
BodyNoCollection == [reason |-> "error"]

DataFull(title, date) ==
    [nasa_id |-> "id", title |-> title, description |-> "desc", date_created |-> date]
DataBare == [nasa_id |-> "id"]
LinkHref(url) == [rel |-> "preview", href |-> url]
LinkBare == [rel |-> "preview"]

\* an item with title, description, date and a link
ItemA == [href |-> "c", data |-> <<DataFull(<<"M", " ", "1">>, <<"2", "0", "2", "0", "T", "0", "9">>)>>, links |-> <<LinkHref("u1")>>]
\* an item whose data block has no title, description or date
ItemB == [href |-> "c", data |-> <<DataBare>>, links |-> <<LinkHref("u2")>>]
\* an item with no "links" key
ItemC == [href |-> "c", data |-> <<DataFull(<<"a", "/", "b">>, <<"2", "0", "2", "1">>)>>]
\* an item whose "links" list is empty
ItemD == [href |-> "c", data |-> <<DataFull(<<"M", " ", "1">>, <<"2", "0", "2", "0", "T", "0", "9">>)>>, links |-> <<>>]
\* an item whose first link has no "href"
ItemE == [href |-> "c", data |-> <<DataFull(<<"M", " ", "2">>, <<"T">>)>>, links |-> <<LinkBare>>]
\* an item with no "data" key
ItemF == [href |-> "c", links |-> <<LinkHref("u3")>>]
\* an item whose "data" list is empty
ItemG == [href |-> "c", data |-> <<>>, links |-> <<LinkHref("u4")>>]

SearchItems == {ItemA, ItemB, ItemC, ItemD, ItemE, ItemF, ItemG}

HttpOutcomes ==
    {HttpRaise, HttpResponse(404, BodyNoCollection), HttpResponse(200, BodyNoCollection),
     HttpResponse(200, BodyNoItems)}
    \cup {HttpResponse(200, Body(items)) : items \in SeqsUpTo(SearchItems, MaxItems)}

\* response.json().get("collection", {}).get("items", [])
ItemsOf(body) ==
    IF "collection" \in DOMAIN body
    THEN (IF "items" \in DOMAIN body.collection THEN body.collection.items ELSE <<>>)
    ELSE <<>>

\* s[:n]
Slice(s, n) ==
    IF n >= 0 THEN SubSeq(s, 1, Min(Len(s), n))
    ELSE SubSeq(s, 1, Len(s) + n)

\* item["data"][0] raises KeyError or IndexError
DataRaises(item) == "data" \notin DOMAIN item \/ Len(item.data) = 0

\* item.get("links", [{}])[0] raises IndexError
LinksRaises(item) == "links" \in DOMAIN item /\ Len(item.links) = 0

\* item.get("links", [{}])[0].get("href", "")
ImageUrl(item) ==
    IF "links" \in DOMAIN item /\ "href" \in DOMAIN item.links[1]
    THEN item.links[1].href
    ELSE ""

Candidate(item) ==
    LET data_block == item.data[1]
    IN  [title |-> IF "title" \in DOMAIN data_block
                   THEN data_block.title ELSE <<"S", "e", "m", " ", "t", "í", "t", "u", "l", "o">>,
         description |-> IF "description" \in DOMAIN data_block
                         THEN data_block.description ELSE "Sem descrição",
         date_created |-> IF "date_created" \in DOMAIN data_block
                          THEN data_block.date_created ELSE <<"D", "e", "s", "c", "o", "n", "h", "e", "c", "i", "d", "a">>,
         image_url |-> ImageUrl(item)]

search_nasa_images(resp, max_results) ==
    IF resp.t = "raise" THEN <<>>
    ELSE IF resp.status # 200 THEN <<>>
    ELSE LET items == Slice(ItemsOf(resp.body), max_results)
         IN  IF \E i \in 1..Len(items) : DataRaises(items[i]) \/ LinksRaises(items[i])
             THEN <<>>
             ELSE [i \in 1..Len(items) |-> Candidate(items[i])]

\* the file name main() builds for a chosen candidate
NomeArquivo(item) ==
    LET data_formatada == IF HasChar(item.date_created, "T")
                          THEN BeforeFirst(item.date_created, "T")
                          ELSE <<"d", "a", "t", "a", "_", "d", "e", "s", "c", "o", "n", "h", "e", "c", "i", "d", "a">>
    IN  limpar_nome_arquivo(item.title) \o <<"_">> \o data_formatada \o <<".", "j", "p", "g">>

----------------------------------------------------------------------------
(* buscar_composicao_quimica *)

\* What vizier.query_object can do: raise, or return a list of tables, each
\* with its column names in order and a number of rows
VizierRaise == [t |-> "raise"]
VizierTables(tables) == [t |-> "tables", tables |-> tables]
Tabela(colnames, rows) == [colnames |-> colnames, rows |-> rows]

ColNames == { <<"l", "o", "g", "O", "H">>, <<"[", "O", "_", "H", "]">>, <<"R", "A">>, <<"l", "o", "g", "o", "h">> }

ColLists == {cs \in SeqsUpTo(ColNames, 2) : \A i, j \in 1..Len(cs) : i # j => cs[i] # cs[j]}

Tabelas == {Tabela(cs, rows) : cs \in ColLists, rows \in 0..1}

VizierOutcomes == {VizierRaise} \cup {VizierTables(ts) : ts \in SeqsUpTo(Tabelas, MaxTables)}

\* `"logOH" in coluna or "O_H" in coluna`
Marker(coluna) == Contains(coluna, <<"l", "o", "g", "O", "H">>) \/ Contains(coluna, <<"O", "_", "H">>)

\* positions <<table, column>> of the marked columns
Marked(tables) ==
    {p \in (1..Len(tables)) \X (1..2) :
        p[2] <= Len(tables[p[1]].colnames) /\ Marker(tables[p[1]].colnames[p[2]])}

\* the first marked column in the order of the two nested loops
FirstMarked(tables) ==
    CHOOSE p \in Marked(tables) :
        \A q \in Marked(tables) : p[1] < q[1] \/ (p[1] = q[1] /\ p[2] <= q[2])

\* f"log(O/H) [U+2248] {val}" with val the first cell of the column at
\* position p; "~" stands for the character U+2248
LogOH(tables, p) ==
    [t |-> "str", txt |-> "log(O/H) ~ {}", table |-> p[1],
     coluna |-> tables[p[1]].colnames[p[2]]]

buscar_composicao_quimica(resp) ==
    IF resp.t = "raise" THEN None
    ELSE IF Marked(resp.tables) = {} THEN None
    ELSE LET p == FirstMarked(resp.tables)
         IN  IF resp.tables[p[1]].rows = 0
             THEN None   \* tabela[coluna][0] raises IndexError, caught
             ELSE LogOH(resp.tables, p)

----------------------------------------------------------------------------
(* salvar_info_em_txt *)

Line(txt, args) == [txt |-> txt, args |-> args]

Now == [t |-> "now"]

\* f"{x:.1f}": x rounded to tenths, ties to even
Fmt1(x) ==
    LET tenths == x.micro \div 100000
        rest == x.micro % 100000
        up == rest > 50000 \/ (rest = 50000 /\ tenths % 2 = 1)
        n == 10 * x.whole + tenths + (IF up THEN 1 ELSE 0)
    IN  [t |-> "fmt", whole |-> n \div 10, tenths |-> n % 10]

\* f"{x:.0f}": x rounded to an integer, ties to even
Fmt0(x) ==
    LET up == x.micro > 500000 \/ (x.micro = 500000 /\ x.whole % 2 = 1)
    IN  [t |-> "fmt", whole |-> x.whole + (IF up THEN 1 ELSE 0)]

\* mutant: nothing is written when there is no record
AstroLines_SemAviso(dados_astro) ==
    IF Truthy(dados_astro)
    THEN <<Line("Coordenadas: RA = {}, DEC = {}",
                <<Str(dados_astro.ra), Str(dados_astro.dec)>>)>>
    ELSE <<>>

AstroLines(dados_astro) ==
    IF Truthy(dados_astro)
    THEN <<Line("Coordenadas: RA = {}, DEC = {}",
                <<Str(dados_astro.ra), Str(dados_astro.dec)>>)>>
         \o (IF Truthy(dados_astro.dist_ly)
             THEN <<Line("Distância estimada: {:.1f} anos-luz ({} pc)",
                         <<Fmt1(dados_astro.dist_ly), dados_astro.dist_pc>>)>>
             ELSE <<>>)
    ELSE <<Line("Dados astronômicos indisponíveis.", <<>>)>>

ImageLines(imagens) == [i \in 1..Len(imagens) |-> Line("- {}", <<Chars(imagens[i])>>)]

CaptionLine(nome_nebulosa, dados_astro) ==
    IF Truthy(dados_astro) /\ Truthy(dados_astro.dist_ly)
    THEN Line("Imagem da {}, localizada a aproximadamente {:.0f} anos-luz da Terra. RA: {} | DEC: {}. Crédito: NASA.",
              <<Chars(nome_nebulosa), Fmt0(dados_astro.dist_ly),
                Str(dados_astro.ra), Str(dados_astro.dec)>>)
    ELSE Line("Imagem da {}. Dados incompletos. Crédito: NASA.", <<Chars(nome_nebulosa)>>)

GenericLines ==
    [i \in 1..Len(COMPOSICAO_GENERICA) |->
        Line("- {} (linha em {}) - tonalidade: {}",
             <<Str(COMPOSICAO_GENERICA[i][1]), Str(COMPOSICAO_GENERICA[i][2]),
               Str(COMPOSICAO_GENERICA[i][3])>>)]

ComposicaoLines(composicao_real) ==
    IF Truthy(composicao_real)
    THEN <<Line("- {} (extraída de catálogo real via VizieR)", <<composicao_real>>)>>
    ELSE GenericLines

salvar_info_em_txt(nome_nebulosa, dados_astro, imagens, resp) ==
    LET composicao_real == buscar_composicao_quimica(resp)
    IN  [t |-> "file",
         name |-> limpar_nome_arquivo(nome_nebulosa) \o <<"_", "i", "n", "f", "o", ".", "t", "x", "t">>,
         lines |->
            <<Line("Nebulosa: {}", <<Chars(nome_nebulosa)>>)>>
            \o AstroLines(dados_astro)
            \o <<Line("Data: {}", <<Now>>)>>
            \o <<Line("", <<>>), Line("Imagens baixadas:", <<>>)>>
            \o ImageLines(imagens)
            \o <<Line("", <<>>), Line("Legenda científica sugerida para uso:", <<>>)>>
            \o <<CaptionLine(nome_nebulosa, dados_astro)>>
            \o <<Line("", <<>>), Line("Composição química estimada:", <<>>)>>
            \o ComposicaoLines(composicao_real)]

----------------------------------------------------------------------------
(* Inputs the model tries *)

NotYet == [t |-> "unset"]

\* texts typed at the menu prompt
MenuInputs == { <<"2">>, <<"1", "0">>, <<"0">>, <<"1", "1">>, <<"a">>, <<>>, <<"sup2">> }

\* texts typed at the manual-name prompt
ManualInputs == { <<" ", "M", " ", "4", "2", " ">>, <<"N", "G", "C", " ", "6", "7", "2", "0">> }

\* tokens of the selection line
Tokens == { <<"1">>, <<"2">>, <<"0">>, <<"9">>, <<"a">>, <<"sup2">> }

RECURSIVE Join(_)
Join(ts) == IF Len(ts) = 0 THEN <<>> ELSE Head(ts) \o <<" ">> \o Join(Tail(ts))

\* selection lines: tokens separated (and followed) by a blank
SelectionInputs == {Join(ts) : ts \in SeqsUpTo(Tokens, MaxTokens)}

MainSimbadOutcomes ==
    {SimbadRaise,
     SimbadTable({"RA", "DEC", "Distance_distance"}, 1, PyInt(1)),
     SimbadTable({"RA", "DEC"}, 1, Masked)}

MainHttpOutcomes ==
    {HttpRaise, HttpResponse(404, BodyNoCollection),
     HttpResponse(200, Body(<<ItemA>>)),
     HttpResponse(200, Body(<<ItemA, ItemC>>)),
     HttpResponse(200, Body(<<ItemB, ItemA>>)),
     HttpResponse(200, Body(<<ItemD>>))}

MainVizierOutcomes ==
    {VizierRaise, VizierTables(<<>>),
     VizierTables(<<Tabela(<<<<"l", "o", "g", "O", "H">>>>, 1)>>),
     VizierTables(<<Tabela(<<<<"l", "o", "g", "O", "H">>>>, 0)>>)}

----------------------------------------------------------------------------
(* escolher_nebulosa *)

\* what one call does with the text typed: return a catalog name, ask for a
\* manual name, call itself again, or die on int()
escolher_nebulosa(e) ==
    IF isdigit(e)
    THEN IF int(e) = ValueError THEN [t |-> "ValueError"]
         ELSE IF int(e).v = 0 THEN [t |-> "manual"]
         ELSE IF int(e).v \in DOMAIN CATALOGO_NEBULOSAS
              THEN [t |-> "name", nome |-> CATALOGO_NEBULOSAS[int(e).v]]
              ELSE [t |-> "again"]
    ELSE [t |-> "again"]

MenuCatalog ==
    /\ pc = "menu"
    /\ \E e \in MenuInputs :
        /\ escolher_nebulosa(e).t = "name"
        /\ escolha' = e
        /\ query' = escolher_nebulosa(e).nome
    /\ pc' = "lookup"
    /\ UNCHANGED <<depth, simbad, nqueries, dados, http, maxres, images, selections,
                   numeros, pos, processed, avisos, imagens_baixadas, saved, vizier,
                   report, stages>>

MenuZero ==
    /\ pc = "menu"
    /\ \E e \in MenuInputs :
        /\ escolher_nebulosa(e).t = "manual"
        /\ escolha' = e
    /\ pc' = "manual"
    /\ UNCHANGED <<depth, query, simbad, nqueries, dados, http, maxres, images,
                   selections, numeros, pos, processed, avisos, imagens_baixadas,
                   saved, vizier, report, stages>>

MenuAgain ==
    /\ pc = "menu"
    /\ depth < MaxDepth
    /\ \E e \in MenuInputs :
        /\ escolher_nebulosa(e).t = "again"
        /\ escolha' = e
    /\ depth' = depth + 1
    /\ pc' = "menu"
    /\ UNCHANGED <<query, simbad, nqueries, dados, http, maxres, images, selections,
                   numeros, pos, processed, avisos, imagens_baixadas, saved, vizier,
                   report, stages>>

MenuValueError ==
    /\ pc = "menu"
    /\ \E e \in MenuInputs :
        /\ escolher_nebulosa(e).t = "ValueError"
        /\ escolha' = e
    /\ pc' = "crashed"
    /\ UNCHANGED <<depth, query, simbad, nqueries, dados, http, maxres, images,
                   selections, numeros, pos, processed, avisos, imagens_baixadas,
                   saved, vizier, report, stages>>

ManualName ==
    /\ pc = "manual"
    /\ \E nome \in ManualInputs : query' = strip(nome)
    /\ pc' = "lookup"
    /\ UNCHANGED <<depth, escolha, simbad, nqueries, dados, http, maxres, images,
                   selections, numeros, pos, processed, avisos, imagens_baixadas,
                   saved, vizier, report, stages>>

----------------------------------------------------------------------------
(* main *)

LookupFrom(outcomes) ==
    /\ pc = "lookup"
    /\ \E result \in outcomes :
        /\ simbad' = result
        /\ dados' = buscar_dados_simbad(query, result)
    /\ nqueries' = nqueries + 1
    /\ stages' = Append(stages, "lookup")
    /\ pc' = "search"
    /\ UNCHANGED <<depth, escolha, query, http, maxres, images, selections, numeros,
                   pos, processed, avisos, imagens_baixadas, saved, vizier, report>>

Lookup == LookupFrom(MainSimbadOutcomes)

\* mutant: the run goes on when the search found nothing
NoImages_Nunca(imgs) == FALSE

\* `if not images`
NoImages(imgs) == Len(imgs) = 0

SearchFrom(outcomes, limits) ==
    /\ pc = "search"
    /\ \E resp \in outcomes, m \in limits :
        /\ http' = resp
        /\ maxres' = m
        /\ images' = search_nasa_images(resp, m)
    /\ stages' = Append(stages, "search")
    /\ pc' = IF NoImages(images') THEN "done" ELSE "select"
    /\ UNCHANGED <<depth, escolha, query, simbad, nqueries, dados, selections, numeros,
                   pos, processed, avisos, imagens_baixadas, saved, vizier, report>>

Search == SearchFrom(MainHttpOutcomes, {10})

\* the tokens n of the line with n.isdigit()
DigitTokens(line) == SelectSeq(split(line), isdigit)

\* [int(n)-1 for n in selections.split() if n.isdigit()]
NumerosEscolhidos(line) ==
    [i \in 1..Len(DigitTokens(line)) |-> int(DigitTokens(line)[i]).v - 1]

\* int(n) raises in the list comprehension
SelectRaises(line) ==
    \E i \in 1..Len(DigitTokens(line)) : int(DigitTokens(line)[i]) = ValueError

Select ==
    /\ pc = "select"
    /\ \E line \in SelectionInputs :
        /\ ~SelectRaises(line)
        /\ selections' = Chars(line)
        /\ numeros' = NumerosEscolhidos(line)
    /\ pos' = 0
    /\ stages' = Append(stages, "download")
    /\ pc' = "download"
    /\ UNCHANGED <<depth, escolha, query, simbad, nqueries, dados, http, maxres, images,
                   processed, avisos, imagens_baixadas, saved, vizier, report>>

SelectValueError ==
    /\ pc = "select"
    /\ \E line \in SelectionInputs :
        /\ SelectRaises(line)
        /\ selections' = Chars(line)
    /\ pc' = "crashed"
    /\ UNCHANGED <<depth, escolha, query, simbad, nqueries, dados, http, maxres, images,
                   numeros, pos, processed, avisos, imagens_baixadas, saved, vizier,
                   report, stages>>

\* `0 <= idx < len(images)`
InRange(idx, imgs) == 0 <= idx /\ idx < Len(imgs)

\* what download_and_show_image can do: save and show the image, fail before
\* img.save (request or decode), or fail in img.show after the file is saved;
\* every failure is caught inside the function
DownloadOutcomes == {"ok", "fails_before_save", "fails_after_save"}

\* the list main() keeps after the call for one chosen image
Baixadas(lista, nome_arquivo, outcome) == Append(lista, nome_arquivo)

DownloadImage ==
    /\ pc = "download"
    /\ pos < Len(numeros)
    /\ InRange(numeros[pos + 1], images)
    /\ \E outcome \in DownloadOutcomes :
        LET nome_arquivo == NomeArquivo(images[numeros[pos + 1] + 1])
        IN  /\ saved' = IF outcome = "fails_before_save"
                        THEN saved ELSE Append(saved, nome_arquivo)
            /\ imagens_baixadas' = Baixadas(imagens_baixadas, nome_arquivo, outcome)
    /\ processed' = Append(processed, numeros[pos + 1])
    /\ pos' = pos + 1
    /\ UNCHANGED <<pc, depth, escolha, query, simbad, nqueries, dados, http, maxres,
                   images, selections, numeros, avisos, vizier, report, stages>>

InvalidIndex ==
    /\ pc = "download"
    /\ pos < Len(numeros)
    /\ ~InRange(numeros[pos + 1], images)
    /\ avisos' = Append(avisos, numeros[pos + 1] + 1)
    /\ pos' = pos + 1
    /\ UNCHANGED <<pc, depth, escolha, query, simbad, nqueries, dados, http, maxres,
                   images, selections, numeros, processed, imagens_baixadas, saved,
                   vizier, report, stages>>

ReportFrom(outcomes) ==
    /\ pc = "download"
    /\ pos = Len(numeros)
    /\ \E resp \in outcomes :
        /\ vizier' = resp
        /\ report' = salvar_info_em_txt(query, dados, imagens_baixadas, resp)
    /\ stages' = Append(stages, "report")
    /\ pc' = "done"
    /\ UNCHANGED <<depth, escolha, query, simbad, nqueries, dados, http, maxres, images,
                   selections, numeros, pos, processed, avisos, imagens_baixadas,
                   saved>>

Report == ReportFrom(MainVizierOutcomes)

Init ==
    /\ pc = "menu"
    /\ depth = 0
    /\ escolha = <<>>
    /\ query = <<>>
    /\ simbad = NotYet
    /\ nqueries = 0
    /\ dados = NotYet
    /\ http = NotYet
    /\ maxres = 0
    /\ images = <<>>
    /\ selections = NotYet
    /\ numeros = <<>>
    /\ pos = 0
    /\ processed = <<>>
    /\ avisos = <<>>
    /\ imagens_baixadas = <<>>
    /\ saved = <<>>
    /\ vizier = NotYet
    /\ report = NotYet
    /\ stages = <<>>

Next ==
    \/ MenuCatalog
    \/ MenuZero
    \/ MenuAgain
    \/ MenuValueError
    \/ ManualName
    \/ Lookup
    \/ Search
    \/ Select
    \/ SelectValueError
    \/ DownloadImage
    \/ InvalidIndex
    \/ Report

Spec == Init /\ [][Next]_vars

----------------------------------------------------------------------------
(* The lookup alone: every name, every answer of SIMBAD *)

\* menu texts that choose a catalog entry
CatalogInputs ==
    { <<"1">>, <<"2">>, <<"3">>, <<"4">>, <<"5">>, <<"6">>, <<"7">>, <<"8">>, <<"9">>, <<"1", "0">> }

\* names typed by hand
ManualNames == { <<"M", " ", "4", "2">>, <<"N", "G", "C", " ", "6", "7", "2", "0">>, <<"N", "G", "C", " ", "2", "3", "9", "2">>, <<"N", "G", "C", " ", "7", "2", "9", "3">> }

\* main() after escolher_nebulosa() returned
InitSimbad ==
    /\ pc = "lookup"
    /\ depth = 0
    /\ \/ /\ escolha \in CatalogInputs
          /\ query = CATALOGO_NEBULOSAS[int(escolha).v]
       \/ /\ escolha = <<"0">>
          /\ query \in ManualNames
    /\ simbad = NotYet
    /\ nqueries = 0
    /\ dados = NotYet
    /\ http = NotYet
    /\ maxres = 0
    /\ images = <<>>
    /\ selections = NotYet
    /\ numeros = <<>>
    /\ pos = 0
    /\ processed = <<>>
    /\ avisos = <<>>
    /\ imagens_baixadas = <<>>
    /\ saved = <<>>
    /\ vizier = NotYet
    /\ report = NotYet
    /\ stages = <<>>

LookupAny == LookupFrom(SimbadOutcomes)

NextSimbad == LookupAny

SpecSimbad == InitSimbad /\ [][NextSimbad]_vars

----------------------------------------------------------------------------
(* The image search alone: every response, every max_results *)

\* main() after the lookup of "Cat's Eye Nebula" with SIMBAD unreachable
InitSearch ==
    /\ pc = "search"
    /\ depth = 0
    /\ escolha = <<"2">>
    /\ query = CATALOGO_NEBULOSAS[2]
    /\ simbad = SimbadRaise
    /\ nqueries = 1
    /\ dados = buscar_dados_simbad(CATALOGO_NEBULOSAS[2], SimbadRaise)
    /\ http = NotYet
    /\ maxres = 0
    /\ images = <<>>
    /\ selections = NotYet
    /\ numeros = <<>>
    /\ pos = 0
    /\ processed = <<>>
    /\ avisos = <<>>
    /\ imagens_baixadas = <<>>
    /\ saved = <<>>
    /\ vizier = NotYet
    /\ report = NotYet
    /\ stages = <<"lookup">>

SearchAny == SearchFrom(HttpOutcomes, 0..MaxM)

NextSearch == SearchAny

SpecSearch == InitSearch /\ [][NextSearch]_vars

----------------------------------------------------------------------------
(* The report alone: every response of VizieR *)

\* main() after image 1 of one result was chosen and saved
InitComp ==
    /\ pc = "download"
    /\ depth = 0
    /\ escolha = <<"2">>
    /\ query = CATALOGO_NEBULOSAS[2]
    /\ simbad = SimbadRaise
    /\ nqueries = 1
    /\ dados = buscar_dados_simbad(CATALOGO_NEBULOSAS[2], SimbadRaise)
    /\ http = HttpResponse(200, Body(<<ItemA>>))
    /\ maxres = 10
    /\ images = search_nasa_images(HttpResponse(200, Body(<<ItemA>>)), 10)
    /\ selections = Chars(<<"1", " ">>)
    /\ numeros = <<0>>
    /\ pos = 1
    /\ processed = <<0>>
    /\ avisos = <<>>
    /\ imagens_baixadas = <<NomeArquivo(Candidate(ItemA))>>
    /\ saved = <<NomeArquivo(Candidate(ItemA))>>
    /\ vizier = NotYet
    /\ report = NotYet
    /\ stages = <<"lookup", "search", "download">>

ReportAny == ReportFrom(VizierOutcomes)

NextComp == ReportAny

SpecComp == InitComp /\ [][NextComp]_vars

----------------------------------------------------------------------------
(* Claims *)

\* C1: when the SIMBAD query fails, the lookup returns exactly the stored
\* record of the resolved Catalog Identifier if DADOS_FIXOS has one, returns
\* None otherwise, and has queried SIMBAD exactly once.
C1_FallbackOnFailure ==
    (pc = "search" /\ simbad = SimbadRaise) =>
        /\ nqueries = 1
        /\ Resolve(query) \in FIXOS_KEYS => dados = DADOS_FIXOS[Resolve(query)]
        /\ Resolve(query) \notin FIXOS_KEYS => dados = None

\* C1 witness: the failed lookup of "Cat's Eye Nebula" returned the stored
\* record of NGC 6543.
C1_Witness ==
    /\ pc = "search"
    /\ simbad = SimbadRaise
    /\ query = <<"C", "a", "t", "'", "s", " ", "E", "y", "e", " ", "N", "e", "b", "u", "l", "a">>
    /\ dados.t = "dict"
    /\ dados.ra = "17 58 33.4"
    /\ dados.dist_pc = PyInt(1001)

\* C2: every record the lookup returns with a parsec distance P carries a
\* light-year distance within 1e-6 of P x 3.26156.
C2_LightYearsExact ==
    (pc = "search" /\ dados.t = "dict" /\ dados.dist_pc.t = "int") =>
        /\ dados.dist_ly.t = "float"
        /\ LET want == ParaAnosLuz(dados.dist_pc.v)
               got == dados.dist_ly
           IN  \/ got.whole = want.whole /\ got.micro - want.micro \in -1..1
               \/ got.whole = want.whole + 1 /\ got.micro = 0 /\ want.micro = 999999
               \/ want.whole = got.whole + 1 /\ want.micro = 0 /\ got.micro = 999999

\* C6 as stated: whenever SIMBAD answers with rows but the result lacks RA,
\* DEC or a usable distance, the lookup returns what it returns on a failed
\* query (the stored record, or None).
C6_PartialFallsBack ==
    (/\ pc = "search"
     /\ simbad.t = "table"
     /\ simbad.rows > 0
     /\ \/ "RA" \notin simbad.cols
        \/ "DEC" \notin simbad.cols
        \/ "Distance_distance" \notin simbad.cols
        \/ simbad.dist = Masked)
    => dados = (IF Resolve(query) \in FIXOS_KEYS
                THEN DADOS_FIXOS[Resolve(query)] ELSE None)

\* C6 amended: an answer that is empty or lacks the RA or the DEC column
\* falls back as a failed query does; an answer with RA and DEC and rows but
\* no usable distance is returned as the remote record, its light-year
\* distance absent.
C6_MissingCoordinatesFallBack ==
    (pc = "search" /\ simbad.t = "table") =>
        IF "RA" \notin simbad.cols \/ "DEC" \notin simbad.cols \/ simbad.rows = 0
        THEN dados = (IF Resolve(query) \in FIXOS_KEYS
                      THEN DADOS_FIXOS[Resolve(query)] ELSE None)
        ELSE /\ dados.t = "dict"
             /\ dados.ra = "RA[0]"
             /\ dados.dec = "DEC[0]"
             /\ ("Distance_distance" \notin simbad.cols
                   \/ simbad.dist = Masked \/ simbad.dist = PyInt(0))
                => dados.dist_ly = None

\* C6 witness: SIMBAD answered for "Ring Nebula" with a row but no RA column
\* and the lookup returned the stored record of NGC 6720.
C6_Witness ==
    /\ pc = "search"
    /\ simbad.t = "table"
    /\ simbad.rows > 0
    /\ "RA" \notin simbad.cols
    /\ query = <<"R", "i", "n", "g", " ", "N", "e", "b", "u", "l", "a">>
    /\ dados = DADOS_FIXOS[<<"N", "G", "C", " ", "6", "7", "2", "0">>]

\* C3: for a catalog response, the composition section of the report is the
\* generic four-line list if and only if no column name of any table contains
\* "logOH" or "O_H"; otherwise it is the single line built from the first
\* such column.
C3_GenericIffNoMarker ==
    (pc = "done" /\ report.t = "file" /\ vizier.t = "tables") =>
        LET ls == report.lines
            h == CHOOSE i \in 1..Len(ls) : ls[i].txt = "Composição química estimada:"
            section == SubSeq(ls, h + 1, Len(ls))
            marked == \E i \in 1..Len(vizier.tables) :
                        \E j \in 1..Len(vizier.tables[i].colnames) :
                            Marker(vizier.tables[i].colnames[j])
        IN  /\ (Len(section) = 4 /\ section = GenericLines) <=> ~marked
            /\ marked =>
                section = <<Line("- {} (extraída de catálogo real via VizieR)",
                                 <<LogOH(vizier.tables, FirstMarked(vizier.tables))>>)>>

\* C4: for a 200 response whose items all have a data block, the result has
\* min(N, max_results) candidates, the i-th built from the i-th item, a
\* missing title, description or date replaced by its placeholder and a
\* missing first link giving an empty URL.
C4_MinCandidatesInOrder ==
    (/\ pc \in {"select", "done"}
     /\ http.t = "response"
     /\ http.status = 200
     /\ \A i \in 1..Len(ItemsOf(http.body)) : ~DataRaises(ItemsOf(http.body)[i]))
    => LET items == ItemsOf(http.body)
           n == Min(Len(items), maxres)
       IN  /\ Len(images) = n
           /\ \A i \in 1..n :
                LET d == items[i].data[1]
                IN  /\ images[i].title =
                          (IF "title" \in DOMAIN d THEN d.title ELSE <<"S", "e", "m", " ", "t", "í", "t", "u", "l", "o">>)
                    /\ images[i].description =
                          (IF "description" \in DOMAIN d THEN d.description
                           ELSE "Sem descrição")
                    /\ images[i].date_created =
                          (IF "date_created" \in DOMAIN d THEN d.date_created
                           ELSE <<"D", "e", "s", "c", "o", "n", "h", "e", "c", "i", "d", "a">>)
                    /\ images[i].image_url =
                          (IF /\ "links" \in DOMAIN items[i]
                              /\ Len(items[i].links) > 0
                              /\ "href" \in DOMAIN items[i].links[1]
                           THEN items[i].links[1].href ELSE "")

\* C5: no token of the selection line aborts the run, and once the batch is
\* over the images processed are exactly those of the decimal tokens k with
\* 1 <= k <= L, in input order, and the warnings are exactly the decimal
\* tokens outside 1..L, in input order.
C5_SelectionNeverAborts ==
    selections # NotYet =>
        /\ pc # "crashed"
        /\ pc = "done" =>
            LET toks == split(selections.s)
                decimal(tk) == Len(tk) > 0 /\ \A i \in 1..Len(tk) : tk[i] \in DecimalDigits
                ks == [i \in 1..Len(SelectSeq(toks, decimal)) |->
                            DecimalValue(SelectSeq(toks, decimal)[i])]
                inside(k) == 1 <= k /\ k <= Len(images)
                outside(k) == ~inside(k)
            IN  /\ processed = [i \in 1..Len(SelectSeq(ks, inside)) |->
                                    SelectSeq(ks, inside)[i] - 1]
                /\ avisos = SelectSeq(ks, outside)

\* C7: a text typed at the menu that is not one of 0..10 keeps the program at
\* the menu; 1..10 resolves to the catalog entry, 0 asks for the manual name.
C7_InvalidInputReprompts ==
    [][pc = "menu" =>
        LET e == escolha'
            decimal == Len(e) > 0 /\ \A i \in 1..Len(e) : e[i] \in DecimalDigits
        IN  IF decimal /\ DecimalValue(e) \in 1..10
            THEN pc' = "lookup" /\ query' = CATALOGO_NEBULOSAS[DecimalValue(e)]
            ELSE IF decimal /\ DecimalValue(e) = 0
                 THEN pc' = "manual"
                 ELSE pc' = "menu"]_vars

\* C8: the report has the line "Dados astronômicos indisponíveis." and no
\* coordinates line when the record is absent, the coordinates line and no
\* such notice when it is present, and in both cases lists the given file
\* names in order under "Imagens baixadas:".
C8_ReportAstroAndFiles ==
    report.t = "file" =>
        LET ls == report.lines
            Has(txt) == \E i \in 1..Len(ls) : ls[i].txt = txt
            h == CHOOSE i \in 1..Len(ls) : ls[i].txt = "Imagens baixadas:"
            g == CHOOSE i \in 1..Len(ls) : ls[i].txt = "Legenda científica sugerida para uso:"
        IN  /\ dados = None =>
                /\ Has("Dados astronômicos indisponíveis.")
                /\ ~Has("Coordenadas: RA = {}, DEC = {}")
            /\ dados # None =>
                /\ \E i \in 1..Len(ls) :
                      /\ ls[i].txt = "Coordenadas: RA = {}, DEC = {}"
                      /\ ls[i].args = <<Str(dados.ra), Str(dados.dec)>>
                /\ ~Has("Dados astronômicos indisponíveis.")
            /\ Has("Imagens baixadas:")
            /\ Has("Legenda científica sugerida para uso:")
            /\ g - h - 2 = Len(imagens_baixadas)
            /\ \A i \in 1..Len(imagens_baixadas) :
                  /\ ls[h + i].txt = "- {}"
                  /\ ls[h + i].args = <<Chars(imagens_baixadas[i])>>

\* C8 witness: a report written with no astrometric record and two files.
C8_Witness ==
    /\ report.t = "file"
    /\ dados = None
    /\ Len(imagens_baixadas) = 2

\* C9: the file names handed to the report writer, and listed in the report,
\* are exactly those of the chosen images that were downloaded and saved.
C9_OnlySavedFilesListed ==
    report.t = "file" =>
        /\ imagens_baixadas = saved
        /\ \A i \in 1..Len(report.lines) :
              report.lines[i].txt = "- {}" =>
                  \E j \in 1..Len(saved) : report.lines[i].args = <<Chars(saved[j])>>

\* C10 as stated: a run that ends normally has executed lookup, search,
\* downloads and report once each in that order and has written the report.
C10_ReportAlwaysWritten ==
    pc = "done" =>
        /\ stages = <<"lookup", "search", "download", "report">>
        /\ report.t = "file"

\* C10 amended: a run that ends normally has queried SIMBAD once and then
\* searched; if the search gave candidates it went on to the downloads and
\* the report, once each in that order, and the report is written; if the
\* search gave none it ended right after the search with no report.
C10_PipelineOrder ==
    pc = "done" =>
        /\ nqueries = 1
        /\ IF Len(images) = 0
           THEN /\ stages = <<"lookup", "search">>
                /\ report = NotYet
                /\ imagens_baixadas = <<>>
           ELSE /\ stages = <<"lookup", "search", "download", "report">>
                /\ report.t = "file"
                /\ pos = Len(numeros)

\* C10 witness: a run that ended after downloading one image and writing
\* the report.
C10_Witness ==
    /\ pc = "done"
    /\ Len(images) > 0
    /\ Len(processed) = 1
    /\ report.t = "file"

====
